---- MODULE Spec2Model ----
(***************************************************************************)
(* Model of the replay analysis of etterna-graph                           *)
(* (savegame_analysis/src/replays_analysis.rs).                            *)
(*                                                                         *)
(* and of the skill timeline (src/skill_development_calc.rs).               *)
(*                                                                         *)
(* The specifications share the module's variables; each leaves the        *)
(* variables of the machines it does not run at their idle values.         *)
(*   SpecSearch   : the fastest-window search, plain and wife-point        *)
(*                  weighted                                               *)
(*   SpecCombo    : find_fastest_combo_in_score                            *)
(*   SpecParse    : parse_replay_file, one line per step                   *)
(*   SpecBatch    : ReplaysAnalysis::create (validate, map, reduce, stddev)*)
(*   SpecStddev   : calculate_standard_deviation on a drawn histogram      *)
(*   SpecSkill    : calc_rating::aggregate_skill, one loop pass per step   *)
(*   SpecTimeline : SkillTimeline::create, one session per step            *)
(*   SpecAnalyze  : analyze on a parsed replay                             *)
(*                                                                         *)
(* Numbers.  Seconds and wife points are small integers.  A speed is the   *)
(* exact quotient [num, den]; den = 0 stands for what f32 division gives:  *)
(* +inf (num > 0), -inf (num < 0) or NaN (num = 0).  f32 rounding of the   *)
(* quotients is not modelled.                                              *)
(***************************************************************************)
EXTENDS Integers, Sequences, FiniteSets, TLC

VARIABLES
    \* ---- fastest-window search (SpecSearch, SpecCombo)
    seconds,        \* the sequence of note times handed to the search
    min_num_notes,
    max_num_notes,
    wife_pts,       \* the weight sequence (weighted variant)
    are_cbs,        \* combo-breaker flags (find_fastest_combo_in_score)
    rate,
    op,             \* which search has run: "none" before any
    fastest,        \* the FastestComboInfo returned
    evaluated       \* the windows the weighted search evaluated, in order, each
                    \* with the wife_pts_sum and the nps it was given

VARIABLES
    \* ---- the build profile (SpecParse, SpecBatch)
    debug_build,    \* cfg(debug_assertions): the map step is sequential
    overflow_checks,\* integer overflow panics instead of wrapping
    \* ---- parse_replay_file (SpecParse)
    parse_pc,       \* "start", "parsing", "done" (Some), "unreadable" (None), "panic"
    line,           \* the line the loop body ran on last
    lines_done,     \* lines consumed so far
    ticks,
    deviations,     \* in milliseconds
    columns,
    num_mine_hits,
    num_hold_drops

VARIABLES
    \* ---- ReplaysAnalysis::create (SpecBatch)
    lens,           \* the lengths of scorekeys, wifescores, packs, songs, rates
    batch,          \* per scorekey: what its replay, chart and wifescore are
    create_pc,      \* "validate", "map", "reduce", "finish", "done", "panic"
    score_analyses, \* the Vec<Option<..>> the map step fills and collects
    completed,      \* the tuple numbers (1-based) in the order their closures finished
    files_read,     \* replay files read so far
    reduce_i,       \* the index the reduction loop is at
    locals,         \* deviation_mean_sum, longest_mcombo, longest_mcombo_scorekey
    analysis        \* the ReplaysAnalysis under construction

VARIABLES
    \* ---- calculate_standard_deviation (SpecStddev)
    hist,           \* offset_buckets
    hist_range,     \* offset_bucket_range
    sd_result       \* None before the call, then Some([panic, variance])

VARIABLES
    \* ---- calc_rating::aggregate_skill (SpecSkill)
    ordering,       \* how the power sum of v compares with 2^(rating*0.1), per rating
    result_multiplier,
    rating,
    resolution,
    round,          \* _i of `for _i in 0..12`
    skill_pc,       \* "loop", "back", "nudge", "done"
    skill_result    \* the f32 returned

VARIABLES
    \* ---- SkillTimeline::create (SpecTimeline)
    day_ids,
    ssr_vectors,
    index,
    rating_vectors,
    overall_ratings,
    timeline_pc     \* "sessions", "done", "panic"

VARIABLES
    \* ---- analyze (SpecAnalyze); the parsed replay is ticks, deviations, columns
    analyze_pc,     \* "parsed", "done"
    searched,       \* the time sequences handed to the window searches, in call order
    analyzed        \* the Option<ScoreAnalysis> returned

searchVars == <<seconds, min_num_notes, max_num_notes, wife_pts, are_cbs, rate, op, fastest,
                evaluated>>
replayFileData == <<ticks, deviations, columns, num_mine_hits, num_hold_drops>>
parseVars == <<parse_pc, line, lines_done, replayFileData>>

batchVars == <<lens, batch, create_pc, score_analyses, completed, files_read, reduce_i, locals, analysis>>

buildVars == <<debug_build, overflow_checks>>

stddevVars == <<hist, hist_range, sd_result>>
skillVars == <<ordering, result_multiplier, rating, resolution, round, skill_pc, skill_result>>
timelineVars == <<day_ids, ssr_vectors, index, rating_vectors, overall_ratings, timeline_pc>>
analyzeVars == <<analyze_pc, searched, analyzed>>
calcVars == <<stddevVars, skillVars, timelineVars>>

vars == <<searchVars, buildVars, parseVars, batchVars, calcVars, analyzeVars>>
nonSearchVars == <<buildVars, parseVars, batchVars, calcVars, analyzeVars>>

\* the idle values of the machines a specification does not run
IdleSearch ==
    /\ seconds = <<>>
    /\ min_num_notes = 0
    /\ max_num_notes = 0
    /\ wife_pts = <<>>
    /\ are_cbs = <<>>
    /\ rate = 1
    /\ op = "idle"
    /\ fastest = [length |-> 0, start_second |-> 0, end_second |-> 0,
                  speed |-> [num |-> 0, den |-> 1]]
    /\ evaluated = <<>>

IdleBuild ==
    /\ debug_build = FALSE
    /\ overflow_checks = FALSE

IdleBatch ==
    /\ lens = <<>>
    /\ batch = <<>>
    /\ create_pc = "idle"
    /\ score_analyses = <<>>
    /\ completed = <<>>
    /\ files_read = 0
    /\ reduce_i = 0
    /\ locals = <<>>
    /\ analysis = <<>>

IdleParse ==
    /\ parse_pc = "idle"
    /\ line = <<>>
    /\ lines_done = 0
    /\ ticks = <<>>
    /\ deviations = <<>>
    /\ columns = <<>>
    /\ num_mine_hits = 0
    /\ num_hold_drops = 0

IdleStddev ==
    /\ hist = <<>>
    /\ hist_range = 0
    /\ sd_result = [tag |-> "none"]

IdleSkill ==
    /\ ordering = [equal_from |-> 0, below_from |-> 0]
    /\ result_multiplier = [num |-> 1, den |-> 1]
    /\ rating = 0
    /\ resolution = 0
    /\ round = 0
    /\ skill_pc = "idle"
    /\ skill_result = [num |-> 0, den |-> 1]

IdleTimeline ==
    /\ day_ids = <<>>
    /\ ssr_vectors = <<>>
    /\ index = 0
    /\ rating_vectors = <<>>
    /\ overall_ratings = <<>>
    /\ timeline_pc = "idle"

IdleAnalyze ==
    /\ analyze_pc = "idle"
    /\ searched = <<>>
    /\ analyzed = [tag |-> "none"]

IdleCalc == IdleStddev /\ IdleSkill /\ IdleTimeline

----------------------------------------------------------------------------
\* Bounds of the search inputs
MaxNotes == 3
MaxSecond == 2
MaxMinNotes == 2

Min(a, b) == IF a <= b THEN a ELSE b

RECURSIVE SeqsUpTo(_, _)
\* all sequences over S of length 0..n
SeqsUpTo(S, n) == IF n = 0 THEN {<<>>}
                  ELSE LET shorter == SeqsUpTo(S, n - 1)
                       IN shorter \cup {Append(q, x) : q \in {r \in shorter : Len(r) = n - 1}, x \in S}

SeqsOfLen(S, n) == [1..n -> S]

----------------------------------------------------------------------------
\* f32 speeds as exact quotients

Speed(num, den) == [num |-> num, den |-> den]
ZeroSpeed == Speed(0, 1)

\* the same value with a non-negative denominator
Norm(r) == IF r.den < 0 THEN Speed(0 - r.num, 0 - r.den) ELSE r

IsNaN(r) == r.den = 0 /\ r.num = 0

\* f32 `a >= b`: false when either side is NaN
Geq(a, b) ==
    LET x == Norm(a)
        y == Norm(b)
    IN  /\ ~IsNaN(a)
        /\ ~IsNaN(b)
        /\ IF x.den = 0 /\ y.den = 0
           THEN x.num > 0 \/ y.num < 0
           ELSE x.num * y.den >= y.num * x.den

\* f32 `a > b`
Gt(a, b) == Geq(a, b) /\ ~Geq(b, a)

\* f32 `a == b`
SpeedEq(a, b) == Geq(a, b) /\ Geq(b, a)

\* FastestComboInfo, and its dummy / Default value
Info(len, s, e, sp) == [length |-> len, start_second |-> s, end_second |-> e, speed |-> sp]
DefaultInfo == Info(0, 0, 0, ZeroSpeed)

InfoEq(a, b) ==
    /\ a.length = b.length
    /\ a.start_second = b.start_second
    /\ a.end_second = b.end_second
    /\ SpeedEq(a.speed, b.speed)

----------------------------------------------------------------------------
\* find_fastest_note_subset.  Rust indices are 0-based: seconds[i] is secs[i + 1].

\* `nps >= fastest.speed`
IsFasterMut(nps, best) == Gt(nps, best)
IsFaster(nps, best) == Geq(nps, best)

\* end_n = min(seconds.len(), max_num_notes + 1)
EndNMut(len, maxn) == Min(len, maxn)
EndN(len, maxn) == Min(len, maxn + 1)

\* (end_i - i) as f32 / (seconds[end_i] - seconds[i])
Nps(secs, i, n) == Speed(n, secs[i + n + 1] - secs[i + 1])

RECURSIVE SubsetInner(_, _, _, _)
\* for i in 0..=(seconds.len() - n - 1)
SubsetInner(secs, n, i, best) ==
    IF i > Len(secs) - n - 1 THEN best
    ELSE LET nps == Nps(secs, i, n)
         IN  SubsetInner(secs, n, i + 1,
                IF IsFaster(nps, best.speed)
                THEN Info(n, secs[i + 1], secs[i + n + 1], nps)
                ELSE best)

RECURSIVE SubsetOuter(_, _, _, _)
\* for n in min_num_notes..end_n
SubsetOuter(secs, n, end_n, best) ==
    IF n >= end_n THEN best
    ELSE SubsetOuter(secs, n + 1, end_n, SubsetInner(secs, n, 0, best))

find_fastest_note_subset(secs, minn, maxn) ==
    IF Len(secs) <= minn THEN DefaultInfo
    ELSE SubsetOuter(secs, minn, EndN(Len(secs), maxn), DefaultInfo)

----------------------------------------------------------------------------
\* find_fastest_note_subset_wife_pts

RECURSIVE SumFirst(_, _)
\* wife_pts[0..k].iter().sum()
SumFirst(w, k) == IF k = 0 THEN 0 ELSE SumFirst(w, k - 1) + w[k]

\* wife_pts[0..min_num_notes].iter().sum()
InitialWifePtsSumMut(w, minn) == SumFirst(w, minn + 1)
InitialWifePtsSum(w, minn) == SumFirst(w, minn)

\* nps *= wife_pts_sum / n
WeightedNps(secs, i, n, wsum) ==
    LET nps == Nps(secs, i, n)
    IN  Speed(nps.num * wsum, nps.den * n)

\* wife_pts_sum -= wife_pts[i]; wife_pts_sum += wife_pts[end_i]
MoveWindowMut(w, wsum, i, n) == wsum + w[i + n + 1]
MoveWindow(w, wsum, i, n) == wsum - w[i + 1] + w[i + n + 1]

RECURSIVE WifeInner(_, _, _, _, _, _)
\* the inner loop: st = [best, sum], the running wife_pts_sum
WifeInner(secs, w, n, i, best, wsum) ==
    IF i > Len(secs) - n - 1 THEN best
    ELSE LET nps == WeightedNps(secs, i, n, wsum)
         IN  WifeInner(secs, w, n, i + 1,
                IF IsFaster(nps, best.speed)
                THEN Info(n, secs[i + 1], secs[i + n + 1], nps)
                ELSE best,
                MoveWindow(w, wsum, i, n))

RECURSIVE WifeOuter(_, _, _, _, _, _)
\* the outer loop; sum_start is wife_pts_sum_start
WifeOuter(secs, w, n, end_n, best, sum_start) ==
    IF n >= end_n THEN best
    ELSE WifeOuter(secs, w, n + 1, end_n,
                   WifeInner(secs, w, n, 0, best, sum_start),
                   sum_start + w[n + 1])

find_fastest_note_subset_wife_pts(secs, minn, maxn, w) ==
    IF Len(secs) <= minn THEN DefaultInfo
    ELSE WifeOuter(secs, w, minn, EndN(Len(secs), maxn), DefaultInfo,
                   InitialWifePtsSum(w, minn))

\* The same two loops, by what each pass of the inner loop evaluates: the window
\* (n, i), the wife_pts_sum it multiplies by and the nps it compares
RECURSIVE WifeInnerEvaluations(_, _, _, _, _)
WifeInnerEvaluations(secs, w, n, i, wsum) ==
    IF i > Len(secs) - n - 1 THEN <<>>
    ELSE <<[n |-> n, i |-> i, wife_pts_sum |-> wsum,
            nps |-> WeightedNps(secs, i, n, wsum)]>>
         \o WifeInnerEvaluations(secs, w, n, i + 1, MoveWindow(w, wsum, i, n))

RECURSIVE WifeOuterEvaluations(_, _, _, _, _)
WifeOuterEvaluations(secs, w, n, end_n, sum_start) ==
    IF n >= end_n THEN <<>>
    ELSE WifeInnerEvaluations(secs, w, n, 0, sum_start)
         \o WifeOuterEvaluations(secs, w, n + 1, end_n, sum_start + w[n + 1])

WifeEvaluations(secs, minn, maxn, w) ==
    IF Len(secs) <= minn THEN <<>>
    ELSE WifeOuterEvaluations(secs, w, minn, EndN(Len(secs), maxn),
                              InitialWifePtsSum(w, minn))

----------------------------------------------------------------------------
\* find_fastest_combo_in_score

NoneIdx == 0 - 1     \* combo_start_i = None

\* the closure trigger_combo_end(combo_end_i): st = [combo_start_i, fastest_combo];
\* w = <<>> stands for wife_pts = None
trigger_combo_end(st, combo_end_i, secs, minn, maxn, w, weighted) ==
    LET start == st.combo_start_i
        combo == SubSeq(secs, start + 1, combo_end_i)
        fastest_note_subset ==
            IF weighted
            THEN find_fastest_note_subset_wife_pts(combo, minn, maxn,
                        SubSeq(w, start + 1, combo_end_i))
            ELSE find_fastest_note_subset(combo, minn, maxn)
    IN  [combo_start_i |-> NoneIdx,
         fastest_combo |->
            IF start # NoneIdx /\ Gt(fastest_note_subset.speed, st.fastest_combo.speed)
            THEN fastest_note_subset
            ELSE st.fastest_combo]

RECURSIVE ComboLoop(_, _, _, _, _, _, _, _)
\* for (i, is_cb) in are_cbs.into_iter().enumerate()
ComboLoop(st, i, cbs, secs, minn, maxn, w, weighted) ==
    IF i >= Len(cbs) THEN st
    ELSE ComboLoop(IF cbs[i + 1]
                   THEN trigger_combo_end(st, i, secs, minn, maxn, w, weighted)
                   ELSE st,
                   i + 1, cbs, secs, minn, maxn, w, weighted)

find_fastest_combo_in_score(secs, cbs, minn, maxn, w, weighted, r) ==
    LET st0 == [combo_start_i |-> 0, fastest_combo |-> DefaultInfo]
        st1 == ComboLoop(st0, 0, cbs, secs, minn, maxn, w, weighted)
        st2 == trigger_combo_end(st1, Len(secs), secs, minn, maxn, w, weighted)
        f   == st2.fastest_combo
    IN  [f EXCEPT !.speed = Speed(f.speed.num * r, f.speed.den)]

----------------------------------------------------------------------------
\* The search machines: the inputs are drawn in Init, one search runs per behaviour

Weights == {0 - 1, 0, 1}
Rates == {1, 2}

IsSorted(q) == \A k \in 1..(Len(q) - 1) : q[k] <= q[k + 1]

Ones(n) == [k \in 1..n |-> 1]
NoCbs(n) == [k \in 1..n |-> FALSE]

InitSearch ==
    /\ seconds \in SeqsUpTo(0..MaxSecond, MaxNotes)
    /\ min_num_notes \in 0..MaxMinNotes
    /\ max_num_notes \in 0..(MaxNotes + 1)
    /\ wife_pts = Ones(Len(seconds))
    /\ are_cbs = NoCbs(Len(seconds))
    /\ rate = 1
    /\ op = "none"
    /\ fastest = DefaultInfo
    /\ evaluated = <<>>
    /\ IdleBuild
    /\ IdleParse
    /\ IdleBatch
    /\ IdleCalc
    /\ IdleAnalyze

RunPlain ==
    /\ op = "none"
    /\ op' = "plain"
    /\ fastest' = find_fastest_note_subset(seconds, min_num_notes, max_num_notes)
    /\ UNCHANGED <<seconds, min_num_notes, max_num_notes, wife_pts, are_cbs, rate, evaluated>>
    /\ UNCHANGED nonSearchVars

RunWifePts ==
    /\ op = "none"
    /\ \E w \in SeqsOfLen(Weights, Len(seconds)) :
          /\ wife_pts' = w
          /\ fastest' = find_fastest_note_subset_wife_pts(seconds, min_num_notes,
                                                         max_num_notes, w)
          /\ evaluated' = WifeEvaluations(seconds, min_num_notes, max_num_notes, w)
    /\ op' = "wife_pts"
    /\ UNCHANGED <<seconds, min_num_notes, max_num_notes, are_cbs, rate>>
    /\ UNCHANGED nonSearchVars

NextSearch == RunPlain \/ RunWifePts

SpecSearch == InitSearch /\ [][NextSearch]_vars

\* find_fastest_combo_in_score as analyze calls it: seconds are the note times of
\* the tick-sorted notes, one cb flag and one wife point per note
MaxComboNotes == 4

InitCombo ==
    /\ seconds \in {q \in SeqsUpTo(0..MaxSecond, MaxComboNotes) : IsSorted(q)}
    /\ min_num_notes \in 1..MaxMinNotes
    /\ max_num_notes \in min_num_notes..(min_num_notes + 1)
    /\ are_cbs \in SeqsOfLen(BOOLEAN, Len(seconds))
    /\ wife_pts = Ones(Len(seconds))
    /\ rate \in Rates
    /\ op = "none"
    /\ fastest = DefaultInfo
    /\ evaluated = <<>>
    /\ IdleBuild
    /\ IdleParse
    /\ IdleBatch
    /\ IdleCalc
    /\ IdleAnalyze

RunCombo ==
    /\ op = "none"
    /\ op' = "combo"
    /\ fastest' = find_fastest_combo_in_score(seconds, are_cbs, min_num_notes,
                                              max_num_notes, <<>>, FALSE, rate)
    /\ UNCHANGED <<seconds, min_num_notes, max_num_notes, wife_pts, are_cbs, rate, evaluated>>
    /\ UNCHANGED nonSearchVars

RunComboWifePts ==
    /\ op = "none"
    /\ \E w \in SeqsOfLen({0, 1}, Len(seconds)) :
          /\ wife_pts' = w
          /\ fastest' = find_fastest_combo_in_score(seconds, are_cbs, min_num_notes,
                                                    max_num_notes, w, TRUE, rate)
    /\ op' = "combo_wife_pts"
    /\ UNCHANGED <<seconds, min_num_notes, max_num_notes, are_cbs, rate, evaluated>>
    /\ UNCHANGED nonSearchVars

NextCombo == RunCombo \/ RunComboWifePts

SpecCombo == InitCombo /\ [][NextCombo]_vars

----------------------------------------------------------------------------
\* Claims about the window search (under SpecSearch)

\* the candidate windows <<n, i>>: n + 1 notes at Rust indices i..i+n
Windows(secs, minn, maxn) ==
    {w \in (minn..Min(maxn, Len(secs) - 1)) \X (0..(Len(secs) - 1)) :
        w[2] <= Len(secs) - w[1] - 1}

Duration(secs, w) == secs[w[2] + w[1] + 1] - secs[w[2] + 1]

PositiveDurations(secs, minn, maxn) ==
    \A w \in Windows(secs, minn, maxn) : Duration(secs, w) > 0

\* the result describes window w of the plain search
IsPlainWindow(f, secs, w) ==
    /\ f.length = w[1]
    /\ f.start_second = secs[w[2] + 1]
    /\ f.end_second = secs[w[2] + w[1] + 1]
    /\ f.speed.num * Duration(secs, w) = w[1] * f.speed.den
    /\ f.speed.den # 0

C8_UnitWeightsAgree ==
    (op = "wife_pts" /\ wife_pts = Ones(Len(seconds)))
    => InfoEq(fastest, find_fastest_note_subset(seconds, min_num_notes, max_num_notes))

\* C8 witness: a weighted search with unit weights that found a window
C8_Witness ==
    /\ op = "wife_pts"
    /\ wife_pts = Ones(Len(seconds))
    /\ PositiveDurations(seconds, min_num_notes, max_num_notes)
    /\ Len(seconds) = 3
    /\ fastest.length = 2

RECURSIVE SumRange(_, _, _)
\* w[lo] + ... + w[hi]  (1-based, empty when lo > hi)
SumRange(w, lo, hi) == IF lo > hi THEN 0 ELSE w[hi] + SumRange(w, lo, hi - 1)

\* the rate a variant assigns to window <<n, i>>; the weighted variant's running
\* sum covers the notes at Rust indices i..i+n-1
WindowRate(w) ==
    IF op = "plain"
    THEN Speed(w[1], Duration(seconds, w))
    ELSE Speed(w[1] * SumRange(wife_pts, w[2] + 1, w[2] + w[1]),
               Duration(seconds, w) * w[1])

\* the rate of every candidate window
WindowRates ==
    [w \in Windows(seconds, min_num_notes, max_num_notes) |-> WindowRate(w)] @@ <<>>

\* the windows whose rate is maximal among the windows whose rate is a number
BestOf(rates) ==
    LET cand == {w \in DOMAIN rates : ~IsNaN(rates[w])}
    IN  {w \in cand : \A v \in cand : Geq(rates[w], rates[v])}

BestWindows == BestOf(WindowRates)

\* visited later in the search order: longer, or as long and starting later
VisitedLater(w, v) == w[1] > v[1] \/ (w[1] = v[1] /\ w[2] >= v[2])

LastVisited(ws) == CHOOSE w \in ws : \A v \in ws : VisitedLater(w, v)

IsWindow(f, w, r) ==
    /\ f.length = w[1]
    /\ f.start_second = seconds[w[2] + 1]
    /\ f.end_second = seconds[w[2] + w[1] + 1]
    /\ SpeedEq(f.speed, r)

----------------------------------------------------------------------------
\* Claims about find_fastest_combo_in_score (under SpecCombo)

\* the maximal combo segments <<lo, hi>> (1-based, inclusive): maximal runs of
\* notes that are not combo-breakers
Segments(cbs) ==
    {sg \in (1..Len(cbs)) \X (1..Len(cbs)) :
        /\ sg[1] <= sg[2]
        /\ \A k \in sg[1]..sg[2] : ~cbs[k]
        /\ (sg[1] = 1 \/ cbs[sg[1] - 1])
        /\ (sg[2] = Len(cbs) \/ cbs[sg[2] + 1])}

SegmentSearch(sg) ==
    IF op = "combo"
    THEN find_fastest_note_subset(SubSeq(seconds, sg[1], sg[2]),
                                  min_num_notes, max_num_notes)
    ELSE find_fastest_note_subset_wife_pts(SubSeq(seconds, sg[1], sg[2]),
                                  min_num_notes, max_num_notes,
                                  SubSeq(wife_pts, sg[1], sg[2]))

\* the candidate windows in the order the two loops visit them
RECURSIVE InVisitOrder(_)
InVisitOrder(ws) ==
    IF ws = {} THEN <<>>
    ELSE LET first == CHOOSE w \in ws : \A v \in ws \ {w} : VisitedLater(v, w)
         IN  <<first>> \o InVisitOrder(ws \ {first})

\* the weighted search evaluates every candidate window once, in visit order
EvaluatesEveryWindow ==
    LET order == InVisitOrder(Windows(seconds, min_num_notes, max_num_notes))
    IN  /\ Len(evaluated) = Len(order)
        /\ \A k \in 1..Len(order) : <<evaluated[k].n, evaluated[k].i>> = order[k]

\* C13 as stated: for every window the weighted search evaluates (the n+1 notes
\* at indices i..i+n), the running weight sum equals the recomputed sum of the
\* weights of the notes in that window, and the speed assigned to the window is
\* n/(seconds[i+n]-seconds[i]) * (sum of weights in window)/n, for every window
\* length n from min to the upper bound and every start i.
C13_RunningSumCoversWindow_Original ==
    (/\ op = "wife_pts"
     /\ min_num_notes >= 1
     /\ IsSorted(seconds)
     /\ PositiveDurations(seconds, min_num_notes, max_num_notes))
    => /\ EvaluatesEveryWindow
       /\ \A k \in 1..Len(evaluated) :
             LET e == evaluated[k]
                 total == SumRange(wife_pts, e.i + 1, e.i + e.n + 1)
             IN  /\ e.wife_pts_sum = total
                 /\ ~IsNaN(e.nps)
                       => SpeedEq(e.nps, Speed(e.n * total,
                                               Duration(seconds, <<e.n, e.i>>) * e.n))

\* C13, amended: for every window the weighted search evaluates, the running
\* weight sum equals the recomputed sum of the weights of the window's first n
\* notes (indices i..i+n-1: the weight of the last note, index i+n, is not in
\* it), and the speed assigned to the window is
\* n/(seconds[i+n]-seconds[i]) * (that sum)/n, for every window length n from
\* min to the upper bound and every start i.
C13_RunningSumCoversFirstN ==
    op = "wife_pts"
    => /\ EvaluatesEveryWindow
       /\ \A k \in 1..Len(evaluated) :
             LET e == evaluated[k]
                 total == SumRange(wife_pts, e.i + 1, e.i + e.n)
             IN  /\ e.wife_pts_sum = total
                 /\ ~IsNaN(e.nps)
                       => SpeedEq(e.nps, Speed(e.n * total,
                                               Duration(seconds, <<e.n, e.i>>) * e.n))

\* C13 witness: a weighted search over three notes with distinct weights that
\* evaluated the windows of length 1 and 2, the sum having moved within a length
\* and grown between lengths
C13_Witness ==
    /\ op = "wife_pts"
    /\ PositiveDurations(seconds, min_num_notes, max_num_notes)
    /\ wife_pts = <<1, 0, 0 - 1>>
    /\ Len(evaluated) = 3
    /\ evaluated[1].wife_pts_sum = 1
    /\ evaluated[2].wife_pts_sum = 0
    /\ evaluated[3].wife_pts_sum = 1
    /\ evaluated[3].n = 2

\* C10: every combo-break is a segment boundary and every maximal combo segment is
\* searched; the result's speed is the highest speed over all segments and window
\* lengths, multiplied by rate.
C10_AllSegmentsSearched ==
    (/\ op \in {"combo", "combo_wife_pts"}
     /\ \A k \in 1..(Len(seconds) - 1) : seconds[k] < seconds[k + 1])
    => \A sg \in Segments(are_cbs) :
          Geq(fastest.speed,
              Speed(SegmentSearch(sg).speed.num * rate, SegmentSearch(sg).speed.den))

----------------------------------------------------------------------------
\* parse_replay_file.  A line is a sequence of bytes.

Byte == [c \in {" ", "-", ".", "0", "1", "2", "3", "4", "5", "7", "9", "H", "x"} |->
            CASE c = " " -> 32 [] c = "-" -> 45 [] c = "." -> 46
              [] c = "0" -> 48 [] c = "1" -> 49 [] c = "2" -> 50 [] c = "3" -> 51
              [] c = "4" -> 52 [] c = "5" -> 53 [] c = "7" -> 55 [] c = "9" -> 57
              [] c = "H" -> 72 [] c = "x" -> 120]

Bytes(str) == [k \in 1..Len(str) |-> Byte[str[k]]]

IsDigit(b) == Byte["0"] <= b /\ b <= Byte["9"]

RECURSIVE DigitsValue(_)
DigitsValue(tok) ==
    IF tok = <<>> THEN 0
    ELSE 10 * DigitsValue(SubSeq(tok, 1, Len(tok) - 1)) + (tok[Len(tok)] - Byte["0"])

AllDigits(tok) == tok # <<>> /\ \A k \in 1..Len(tok) : IsDigit(tok[k])

\* btoi::btou: an unsigned decimal, Err on an empty slice or a non-digit
btou(tok) == IF AllDigits(tok) THEN [ok |-> TRUE, val |-> DigitsValue(tok)]
             ELSE [ok |-> FALSE, val |-> 0]

\* the fraction digits as thousandths (digits after the third are dropped)
Thousandths(frac) ==
    LET d == SubSeq(frac, 1, Min(3, Len(frac)))
    IN  DigitsValue(d) * (CASE Len(d) = 1 -> 100 [] Len(d) = 2 -> 10 [] OTHER -> 1)

\* parse_sm_float: [-]digits[.digits], the value in milliseconds; None otherwise
parse_sm_float(tok) ==
    LET neg  == tok # <<>> /\ tok[1] = Byte["-"]
        body == IF neg THEN Tail(tok) ELSE tok
        dots == {k \in 1..Len(body) : body[k] = Byte["."]}
        dot  == IF dots = {} THEN Len(body) + 1 ELSE CHOOSE k \in dots : \A j \in dots : k <= j
        int  == SubSeq(body, 1, dot - 1)
        frac == SubSeq(body, dot + 1, Len(body))
        good == AllDigits(int) /\ (dots = {} \/ AllDigits(frac))
        ms   == DigitsValue(int) * 1000 + (IF dots = {} THEN 0 ELSE Thousandths(frac))
    IN  IF good THEN [ok |-> TRUE, val |-> IF neg THEN 0 - ms ELSE ms]
        ELSE [ok |-> FALSE, val |-> 0]

RECURSIVE splitn(_, _)
\* line.splitn(n, |&c| c == b' '): at most n pieces, the last one the whole rest
splitn(l, n) ==
    LET sp == {k \in 1..Len(l) : l[k] = Byte[" "]}
        k1 == CHOOSE k \in sp : \A j \in sp : k <= j
    IN  IF n <= 1 \/ sp = {} THEN <<l>>
        ELSE <<SubSeq(l, 1, k1 - 1)>> \o splitn(SubSeq(l, k1 + 1, Len(l)), n - 1)

\* u8 subtraction `b - b'0'`: overflow panics with overflow checks and wraps otherwise
SubZeroOverflows(b) == b < Byte["0"]
SubZero(b) == (b - Byte["0"]) % 256

\* the body of the loop over the lines, as the kind of outcome and the values parsed
LineOutcome(l, checks) ==
    LET tok == splitn(l, 3)
        tick == btou(tok[1])
        deviation == parse_sm_float(tok[2])
        remainder == tok[3]
        has_type == Len(remainder) >= 3
        note_type == IF has_type THEN SubZero(remainder[3]) ELSE 1
        rec(kind) == [kind |-> kind, tick |-> tick.val, deviation |-> deviation.val,
                      column |-> SubZero(remainder[1])]
        none(kind) == [kind |-> kind, tick |-> 0, deviation |-> 0, column |-> 0]
    IN  IF Len(l) = 0 THEN none("continue")
        ELSE IF l[1] = Byte["H"] THEN none("hold_drop")
        ELSE IF ~tick.ok THEN none("continue")
        ELSE IF Len(tok) < 2 THEN none("panic")      \* expect("Missing tick token")
        ELSE IF ~deviation.ok THEN none("continue")
        ELSE IF Len(tok) < 3 THEN none("panic")      \* expect("Missing tick token")
        ELSE IF Len(remainder) = 0 THEN none("panic")    \* remainder[0] out of bounds
        ELSE IF checks /\ SubZeroOverflows(remainder[1]) THEN none("panic")
        ELSE IF checks /\ has_type /\ SubZeroOverflows(remainder[3]) THEN none("panic")
        ELSE IF note_type \in {1, 2} THEN rec("note")
        ELSE IF note_type = 4 THEN none("mine")
        ELSE IF note_type \in {5, 7} THEN none("ignored")
        ELSE none("warning")

\* The lines a replay file is drawn from: up to three space-separated fields
MaxLines == 2

TickTokens == {<<>>, <<"7">>, <<"1", "2">>, <<"x">>, <<"H">>}
DeviationTokens == {<<>>, <<"0", ".", "1">>, <<"-", "0", ".", "0", "2">>, <<"x">>}
Remainders == {<<>>, <<"0">>, <<"3", " ", "2">>, <<"0", " ", "4">>, <<"0", " ", "5">>,
               <<"0", " ", "9">>, <<"5", " ", "1">>, <<"-", " ", "1">>, <<"0", " ", "-">>}

FileLines ==
    {Bytes(t) : t \in TickTokens}
    \cup {Bytes(t \o <<" ">> \o d) : t \in TickTokens, d \in DeviationTokens}
    \cup {Bytes(t \o <<" ">> \o d \o <<" ">> \o r) :
            t \in TickTokens, d \in DeviationTokens, r \in Remainders}

InitParse ==
    /\ debug_build = FALSE
    /\ overflow_checks \in BOOLEAN
    /\ parse_pc = "start"
    /\ line = <<>>
    /\ lines_done = 0
    /\ ticks = <<>>
    /\ deviations = <<>>
    /\ columns = <<>>
    /\ num_mine_hits = 0
    /\ num_hold_drops = 0
    /\ IdleSearch
    /\ IdleBatch
    /\ IdleCalc
    /\ IdleAnalyze

\* std::fs::read(path).ok()?
ReadFile ==
    /\ parse_pc = "start"
    /\ \/ parse_pc' = "parsing"
       \/ parse_pc' = "unreadable"
    /\ UNCHANGED <<line, lines_done, replayFileData, buildVars, searchVars, batchVars, calcVars, analyzeVars>>

\* one iteration of `for line in util::split_newlines(&bytes, 5)`
ParseLine ==
    /\ parse_pc = "parsing"
    /\ lines_done < MaxLines
    /\ \E l \in FileLines :
          LET o == LineOutcome(l, overflow_checks)
          IN  /\ line' = l
              /\ parse_pc' = IF o.kind = "panic" THEN "panic" ELSE "parsing"
              /\ ticks' = IF o.kind = "note" THEN Append(ticks, o.tick) ELSE ticks
              /\ deviations' = IF o.kind = "note" THEN Append(deviations, o.deviation)
                               ELSE deviations
              /\ columns' = IF o.kind = "note" THEN Append(columns, o.column) ELSE columns
              /\ num_mine_hits' = IF o.kind = "mine" THEN num_mine_hits + 1 ELSE num_mine_hits
              /\ num_hold_drops' = IF o.kind = "hold_drop" THEN num_hold_drops + 1
                                   ELSE num_hold_drops
    /\ lines_done' = lines_done + 1
    /\ UNCHANGED <<buildVars, searchVars, batchVars, calcVars, analyzeVars>>

\* return Some(ReplayFileData { .. })
EndOfFile ==
    /\ parse_pc = "parsing"
    /\ parse_pc' = "done"
    /\ UNCHANGED <<line, lines_done, replayFileData, buildVars, searchVars, batchVars, calcVars, analyzeVars>>

NextParse == ReadFile \/ ParseLine \/ EndOfFile

SpecParse == InitParse /\ [][NextParse]_vars

\* a line whose tick or deviation field is missing or unparseable, or that has
\* fewer than three fields, or whose column field is empty
Malformed(l) ==
    LET tok == splitn(l, 3)
    IN  /\ Len(l) > 0
        /\ l[1] # Byte["H"]
        /\ \/ ~btou(tok[1]).ok
           \/ Len(tok) < 3
           \/ ~parse_sm_float(tok[2]).ok
           \/ Len(tok[3]) = 0

\* C6: on a readable file parse_replay_file never aborts, whatever the lines hold:
\* a line whose tick or deviation field is missing or unparseable (also a line of
\* fewer than three fields or with an empty column field) adds no record and
\* changes no counter, and the lines after it are still processed.
C6_MalformedLineSkipped ==
    [][lines_done' = lines_done + 1
       => /\ parse_pc' = "parsing"
          /\ Malformed(line') => UNCHANGED replayFileData]_vars

----------------------------------------------------------------------------
\* calculate_standard_deviation.  A histogram is a sequence; bucket i of the code
\* is buckets[i + 1] and stands for the value i - range.

\* OFFSET_BUCKET_RANGE, scaled down from 180
OFFSET_BUCKET_RANGE == 1
NUM_OFFSET_BUCKETS == 2 * OFFSET_BUCKET_RANGE + 1

RECURSIVE SumSeq(_)
SumSeq(q) == IF q = <<>> THEN 0 ELSE q[Len(q)] + SumSeq(SubSeq(q, 1, Len(q) - 1))

Abs(a) == IF a < 0 THEN 0 - a ELSE a

\* i64 `a / b`, which truncates toward zero (b # 0)
TruncDiv(a, b) ==
    IF (a >= 0) = (b > 0) THEN Abs(a) \div Abs(b) ELSE 0 - (Abs(a) \div Abs(b))

\* The result is [panic, variance]: the function returns sqrt(variance).
\* `num_values - 1` on u64 0 panics with overflow checks and wraps to u64::MAX
\* otherwise, which is -1 as i64 and about 1.8e19 as f32.
calculate_standard_deviation(offset_buckets, offset_bucket_range, checks) ==
    LET value(k) == (k - 1) - offset_bucket_range
        values_sum == SumSeq([k \in 1..Len(offset_buckets) |-> value(k) * offset_buckets[k]])
        num_values == SumSeq(offset_buckets)
        wraps == num_values = 0
        divisor == IF wraps THEN 0 - 1 ELSE num_values - 1
        mean == TruncDiv(values_sum, divisor)
        squared_differences_sum ==
            SumSeq([k \in 1..Len(offset_buckets) |->
                       offset_buckets[k] * (value(k) - mean) * (value(k) - mean)])
        failed == [panic |-> TRUE, variance |-> ZeroSpeed]
    IN  IF Len(offset_buckets) # 2 * offset_bucket_range + 1 THEN failed   \* assert_eq!
        ELSE IF wraps /\ checks THEN failed           \* attempt to subtract with overflow
        ELSE IF divisor = 0 THEN failed             \* attempt to divide by zero
        ELSE [panic |-> FALSE,
              variance |-> IF wraps THEN ZeroSpeed   \* 0 / 1.8e19
                           ELSE Speed(squared_differences_sum, num_values - 1)]

----------------------------------------------------------------------------
\* ReplaysAnalysis::create

MaxBatch == 2

NoChart == 0 - 1        \* the scorekey "<no chart>"
EmptyKey == 0 - 2       \* the scorekey "" of a Default report; score i has scorekey i

None == [tag |-> "none"]
Pending == [tag |-> "pending"]      \* a slot of the map's output not yet written
Some(v) == [tag |-> "some", val |-> v]

\* What the world holds for one scorekey: whether its replay file is readable, how
\* many hits its histogram counts, its wifescore (percent) and the timing-dependent
\* results of its chart, if the timing index has the chart
TimingKinds ==
    {[fastest_combo |-> 1, fastest_jack |-> 2, fastest_acc |-> 1, new_wifescore |-> 95],
     [fastest_combo |-> 2, fastest_jack |-> 1, fastest_acc |-> 1, new_wifescore |-> 96]}

Replays ==
    {[readable |-> FALSE, hits |-> 0, wifescore |-> 94, timing |-> None]}
    \cup [readable : {TRUE}, hits : {0, 1}, wifescore : {92, 94},
          timing : {None} \cup {Some(t) : t \in TimingKinds}]

\* analyze(), by its result: None for an unreadable replay, else the ScoreAnalysis
analyze(replay) ==
    LET low == IF replay.wifescore < 93 THEN 1 ELSE 0
        bucket == IF low = 1 THEN 1 ELSE OFFSET_BUCKET_RANGE + 1
    IN  IF ~replay.readable THEN None
        ELSE Some([manipulation |-> low,
                   deviation_mean |-> replay.hits * (bucket - 1 - OFFSET_BUCKET_RANGE),
                   notes_per_column |-> <<replay.hits, low, 0, 0>>,
                   cbs_per_column |-> <<0, low, 0, 0>>,
                   longest_mcombo |-> replay.hits * (1 - low),
                   offset_buckets |-> [k \in 1..NUM_OFFSET_BUCKETS |->
                                          IF k = bucket THEN replay.hits ELSE 0],
                   wife2_wifescore |-> replay.wifescore - 1,
                   timing_info_dependant_analysis |-> replay.timing])

\* the closure of the map step, on tuple number i (0-based)
MapClosure(i, replay) ==
    LET score == analyze(replay)
    IN  IF score = None THEN None
        ELSE Some([scorekey |-> i, score |-> score.val, wifescore |-> replay.wifescore])

\* the four assert_eq! on the lengths
LengthsEqualMut(l) ==
    /\ l.scorekeys = l.wifescores
    /\ l.scorekeys = l.packs
    /\ l.scorekeys = l.songs
LengthsEqual(l) ==
    /\ l.scorekeys = l.wifescores
    /\ l.scorekeys = l.packs
    /\ l.scorekeys = l.songs
    /\ l.scorekeys = l.rates

\* izip!(scorekeys, wifescores, packs, songs, rates).collect(): as long as the
\* shortest
tuples ==
    SubSeq(batch, 1, Min(lens.scorekeys, Min(lens.wifescores,
                     Min(lens.packs, Min(lens.songs, lens.rates)))))

ZeroBuckets == [k \in 1..NUM_OFFSET_BUCKETS |-> 0]

\* Self::default(), with the two histograms allocated
DefaultAnalysis ==
    [score_indices |-> <<>>, manipulations |-> <<>>, deviation_mean |-> ZeroSpeed,
     notes_per_column |-> <<0, 0, 0, 0>>, cbs_per_column |-> <<0, 0, 0, 0>>,
     longest_mcombo |-> <<0, EmptyKey>>,
     offset_buckets |-> ZeroBuckets, sub_93_offset_buckets |-> ZeroBuckets,
     standard_deviation |-> ZeroSpeed,
     fastest_combo |-> 0, fastest_combo_scorekey |-> EmptyKey,
     fastest_jack |-> 0, fastest_jack_scorekey |-> EmptyKey,
     fastest_acc |-> 0, fastest_acc_scorekey |-> EmptyKey,
     wife2_wifescores |-> <<>>,
     timing_info_dependant_score_indices |-> <<>>,
     current_wifescores |-> <<>>, new_wifescores |-> <<>>]

InitialLocals ==
    [deviation_mean_sum |-> 0, longest_mcombo |-> 0, longest_mcombo_scorekey |-> NoChart]

\* the slot of the collected vector a finished closure's result lands in: the
\* indexed parallel iterator collects by index, not by completion time
StoreResultMut(sa, k, r) ==
    LET free == {j \in 1..Len(sa) : sa[j] = Pending}
    IN  [sa EXCEPT ![CHOOSE j \in free : \A h \in free : j <= h] = r]
StoreResult(sa, k, r) == [sa EXCEPT ![k] = r]

\* analysis.score_indices.push(i as u64), after some_or_continue!
PushScoreIndexMut(an, i, opt) == Append(an.score_indices, i)
PushScoreIndex(an, i, opt) ==
    IF opt = None THEN an.score_indices ELSE Append(an.score_indices, i)

AddColumns(a, b) == [c \in 1..4 |-> a[c] + b[c]]
AddBuckets(a, b) == [k \in 1..Len(a) |-> a[k] + (IF k <= Len(b) THEN b[k] ELSE 0)]

\* the timing-dependent part of the loop body
ReduceTimingMut(an, i, scorekey, wifescore, t) ==
    [an EXCEPT
        !.timing_info_dependant_score_indices = Append(@, Len(@)),
        !.current_wifescores = Append(@, wifescore),
        !.new_wifescores = Append(@, t.new_wifescore),
        !.fastest_combo = IF t.fastest_combo > @ THEN t.fastest_combo ELSE @,
        !.fastest_combo_scorekey =
            IF t.fastest_combo > an.fastest_combo THEN scorekey ELSE @,
        !.fastest_acc = IF t.fastest_acc > @ THEN t.fastest_acc ELSE @,
        !.fastest_acc_scorekey =
            IF t.fastest_acc > an.fastest_acc THEN scorekey ELSE @,
        !.fastest_jack = IF t.fastest_jack > @ THEN t.fastest_jack ELSE @,
        !.fastest_jack_scorekey =
            IF t.fastest_jack > an.fastest_jack THEN scorekey ELSE @]
ReduceTiming(an, i, scorekey, wifescore, t) ==
    [an EXCEPT
        !.timing_info_dependant_score_indices = Append(@, i),
        !.current_wifescores = Append(@, wifescore),
        !.new_wifescores = Append(@, t.new_wifescore),
        !.fastest_combo = IF t.fastest_combo > @ THEN t.fastest_combo ELSE @,
        !.fastest_combo_scorekey =
            IF t.fastest_combo > an.fastest_combo THEN scorekey ELSE @,
        !.fastest_acc = IF t.fastest_acc > @ THEN t.fastest_acc ELSE @,
        !.fastest_acc_scorekey =
            IF t.fastest_acc > an.fastest_acc THEN scorekey ELSE @,
        !.fastest_jack = IF t.fastest_jack > @ THEN t.fastest_jack ELSE @,
        !.fastest_jack_scorekey =
            IF t.fastest_jack > an.fastest_jack THEN scorekey ELSE @]

\* the body of the reduction loop on (i, score_analysis_option): the report after it
ReduceAnalysis(an, i, opt) ==
    IF opt = None THEN [an EXCEPT !.score_indices = PushScoreIndex(an, i, opt)]
    ELSE LET scorekey == opt.val.scorekey
             score == opt.val.score
             wifescore == opt.val.wifescore
             base == [an EXCEPT
                        !.score_indices = PushScoreIndex(an, i, opt),
                        !.manipulations = Append(@, score.manipulation),
                        !.wife2_wifescores = Append(@, score.wife2_wifescore),
                        !.cbs_per_column = AddColumns(@, score.cbs_per_column),
                        !.notes_per_column = AddColumns(@, score.notes_per_column),
                        !.offset_buckets = AddBuckets(@, score.offset_buckets),
                        !.sub_93_offset_buckets =
                            IF wifescore < 93 THEN AddBuckets(@, score.offset_buckets)
                            ELSE @]
         IN  IF score.timing_info_dependant_analysis = None THEN base
             ELSE ReduceTiming(base, i, scorekey, wifescore,
                               score.timing_info_dependant_analysis.val)

\* the locals after the loop body
ReduceLocalsMut(loc, opt) ==
    IF opt = None THEN loc
    ELSE LET score == opt.val.score
         IN  [deviation_mean_sum |-> loc.deviation_mean_sum + score.deviation_mean,
              longest_mcombo |->
                 IF score.longest_mcombo >= loc.longest_mcombo
                 THEN score.longest_mcombo ELSE loc.longest_mcombo,
              longest_mcombo_scorekey |->
                 IF score.longest_mcombo >= loc.longest_mcombo
                 THEN opt.val.scorekey ELSE loc.longest_mcombo_scorekey]
ReduceLocals(loc, opt) ==
    IF opt = None THEN loc
    ELSE LET score == opt.val.score
         IN  [deviation_mean_sum |-> loc.deviation_mean_sum + score.deviation_mean,
              longest_mcombo |->
                 IF score.longest_mcombo > loc.longest_mcombo
                 THEN score.longest_mcombo ELSE loc.longest_mcombo,
              longest_mcombo_scorekey |->
                 IF score.longest_mcombo > loc.longest_mcombo
                 THEN opt.val.scorekey ELSE loc.longest_mcombo_scorekey]

\* the five input arrays have one length
SameLengths ==
    \A f \in {"wifescores", "packs", "songs", "rates"} : lens[f] = lens.scorekeys

LensOf(n) == [scorekeys |-> n, wifescores |-> n, packs |-> n, songs |-> n, rates |-> n]

InitBatch ==
    /\ debug_build \in BOOLEAN
    /\ overflow_checks \in BOOLEAN
    /\ \/ \E n \in 0..MaxBatch :
             /\ lens = LensOf(n)
             /\ batch \in [1..n -> Replays]
       \/ /\ lens \in [scorekeys : 0..MaxBatch, wifescores : 0..MaxBatch,
                       packs : 0..MaxBatch, songs : 0..MaxBatch, rates : 0..MaxBatch]
          /\ ~SameLengths
          /\ batch = [k \in 1..lens.scorekeys |->
                        [readable |-> TRUE, hits |-> 1, wifescore |-> 94, timing |-> None]]
    /\ create_pc = "validate"
    /\ score_analyses = <<>>
    /\ completed = <<>>
    /\ files_read = 0
    /\ reduce_i = 0
    /\ locals = InitialLocals
    /\ analysis = DefaultAnalysis
    /\ IdleSearch
    /\ IdleParse
    /\ IdleCalc
    /\ IdleAnalyze

\* the parameter validation, up to the start of the map step
Validate ==
    /\ create_pc = "validate"
    /\ IF LengthsEqual(lens)
       THEN /\ create_pc' = "map"
            /\ score_analyses' = [k \in 1..Len(tuples) |-> Pending]
       ELSE /\ create_pc' = "panic"
            /\ UNCHANGED score_analyses
    /\ UNCHANGED <<lens, batch, completed, files_read, reduce_i, locals, analysis>>
    /\ UNCHANGED <<buildVars, searchVars, parseVars, calcVars, analyzeVars>>

\* one closure of the map step finishes: tuples.iter() takes the tuples in order,
\* tuples.par_iter() lets the workers finish in any order
MapScore ==
    /\ create_pc = "map"
    /\ \E k \in 1..Len(tuples) :
          /\ \A j \in 1..Len(completed) : completed[j] # k
          /\ debug_build => k = Len(completed) + 1
          /\ score_analyses' = StoreResult(score_analyses, k, MapClosure(k - 1, tuples[k]))
          /\ completed' = Append(completed, k)
    /\ files_read' = files_read + 1
    /\ UNCHANGED <<lens, batch, create_pc, reduce_i, locals, analysis>>
    /\ UNCHANGED <<buildVars, searchVars, parseVars, calcVars, analyzeVars>>

\* .collect() returns once every closure has finished
Collect ==
    /\ create_pc = "map"
    /\ Len(completed) = Len(tuples)
    /\ create_pc' = "reduce"
    /\ UNCHANGED <<lens, batch, score_analyses, completed, files_read, reduce_i, locals,
                   analysis>>
    /\ UNCHANGED <<buildVars, searchVars, parseVars, calcVars, analyzeVars>>

\* one iteration of `for (i, score_analysis_option) in score_analyses.into_iter().enumerate()`
Reduce ==
    /\ create_pc = "reduce"
    /\ reduce_i < Len(score_analyses)
    /\ analysis' = ReduceAnalysis(analysis, reduce_i, score_analyses[reduce_i + 1])
    /\ locals' = ReduceLocals(locals, score_analyses[reduce_i + 1])
    /\ reduce_i' = reduce_i + 1
    /\ UNCHANGED <<lens, batch, create_pc, score_analyses, completed, files_read>>
    /\ UNCHANGED <<buildVars, searchVars, parseVars, calcVars, analyzeVars>>

\* after the loop: the three assert_eq!, the means, the standard deviation, return
Finish ==
    /\ create_pc = "reduce"
    /\ reduce_i = Len(score_analyses)
    /\ LET sd == calculate_standard_deviation(analysis.offset_buckets,
                                             OFFSET_BUCKET_RANGE, overflow_checks)
           asserts ==
               /\ Len(analysis.manipulations) = Len(analysis.score_indices)
               /\ Len(analysis.current_wifescores) = Len(analysis.new_wifescores)
               /\ Len(analysis.current_wifescores) =
                     Len(analysis.timing_info_dependant_score_indices)
       IN  IF asserts /\ ~sd.panic
           THEN /\ create_pc' = "done"
                /\ analysis' =
                     [analysis EXCEPT
                        !.deviation_mean = Speed(locals.deviation_mean_sum,
                                                 Len(analysis.manipulations)),
                        !.longest_mcombo = <<locals.longest_mcombo,
                                             locals.longest_mcombo_scorekey>>,
                        !.standard_deviation = sd.variance]
           ELSE /\ create_pc' = "panic"
                /\ UNCHANGED analysis
    /\ UNCHANGED <<lens, batch, score_analyses, completed, files_read, reduce_i, locals>>
    /\ UNCHANGED <<buildVars, searchVars, parseVars, calcVars, analyzeVars>>

NextBatch == Validate \/ MapScore \/ Collect \/ Reduce \/ Finish

SpecBatch == InitBatch /\ [][NextBatch]_vars

----------------------------------------------------------------------------
\* Claims about ReplaysAnalysis::create (under SpecBatch)

RECURSIVE Ascending(_)
\* the elements of a finite set of integers, in increasing order
Ascending(S) ==
    IF S = {} THEN <<>>
    ELSE LET m == CHOOSE x \in S : \A y \in S : x <= y
         IN  <<m>> \o Ascending(S \ {m})

StrictlyIncreasing(q) == \A k \in 1..(Len(q) - 1) : q[k] < q[k + 1]

\* the original indices (0-based) whose replay is readable
Survivors == {i \in 0..(Len(tuples) - 1) : tuples[i + 1].readable}
SurvivorSeq == Ascending(Survivors)

\* the reduction loop has consumed every element
ReductionOver ==
    /\ SameLengths
    /\ create_pc \in {"reduce", "done", "panic"}
    /\ reduce_i = Len(tuples)

\* C1: for equal-length inputs and every pattern of per-score success and failure,
\* score_indices, manipulations and wife2_wifescores have the same length, and
\* score_indices is strictly increasing with every value in [0, batchSize).
C1_ListsAligned ==
    SameLengths
    => /\ Len(analysis.score_indices) = Len(analysis.manipulations)
       /\ Len(analysis.score_indices) = Len(analysis.wife2_wifescores)
       /\ StrictlyIncreasing(analysis.score_indices)
       /\ \A k \in 1..Len(analysis.score_indices) :
             0 <= analysis.score_indices[k] /\ analysis.score_indices[k] < lens.scorekeys

\* C1 witness: a returned report of a batch whose first replay failed and whose
\* second succeeded
C1_Witness ==
    /\ create_pc = "done"
    /\ lens.scorekeys = 2
    /\ ~tuples[1].readable
    /\ analysis.score_indices = <<1>>
    /\ Len(analysis.manipulations) = 1

\* the per-score lists, sums and histograms are those of the readable scores alone,
\* each under its original index
SurvivorsKeepIndex ==
    LET analyses == [k \in 1..Len(tuples) |-> analyze(tuples[k])] @@ <<>>
        score(i) == analyses[i + 1].val
        n == Len(SurvivorSeq)
    IN  /\ analysis.score_indices = SurvivorSeq
        /\ analysis.manipulations = [k \in 1..n |-> score(SurvivorSeq[k]).manipulation]
        /\ analysis.wife2_wifescores = [k \in 1..n |-> score(SurvivorSeq[k]).wife2_wifescore]
        /\ \A c \in 1..4 :
              /\ analysis.notes_per_column[c] =
                    SumSeq([k \in 1..n |-> score(SurvivorSeq[k]).notes_per_column[c]])
              /\ analysis.cbs_per_column[c] =
                    SumSeq([k \in 1..n |-> score(SurvivorSeq[k]).cbs_per_column[c]])
        /\ \A b \in 1..NUM_OFFSET_BUCKETS :
              /\ analysis.offset_buckets[b] =
                    SumSeq([k \in 1..n |-> score(SurvivorSeq[k]).offset_buckets[b]])
              /\ analysis.sub_93_offset_buckets[b] =
                    SumSeq([k \in 1..n |->
                              IF tuples[SurvivorSeq[k] + 1].wifescore < 93
                              THEN score(SurvivorSeq[k]).offset_buckets[b] ELSE 0])

\* the part of C2 the code keeps: once the reduction is over, index i is in
\* score_indices iff replay i was readable, and a failed score contributed nothing
C2_SurvivorsKeepIndexHolds == ReductionOver => SurvivorsKeepIndex

\* C2: index i is in score_indices iff the analysis of replay i succeeded; a failed
\* score contributes no entry to the lists, the tallies or the histograms, the
\* other scores keep their original indices, and no error is raised.
C2_FailedScoresOmitted ==
    (/\ SameLengths
     /\ create_pc \in {"done", "panic"}
     /\ \E i \in 0..(Len(tuples) - 1) : ~tuples[i + 1].readable)
    => /\ SurvivorsKeepIndex
       /\ create_pc = "done"

\* the running maximum of val over the scores in S and the key of its owner
MaxOwner(S, val(_), none) ==
    LET m == IF S = {} THEN 0
             ELSE LET top == CHOOSE i \in S : \A j \in S : val(i) >= val(j)
                  IN  val(top)
    IN  IF m > 0
        THEN <<m, CHOOSE i \in S : val(i) = m /\ \A j \in S : val(j) = m => i <= j>>
        ELSE <<0, none>>

TimedSurvivors ==
    {i \in Survivors : tuples[i + 1].timing # None}

\* what a sequential pass over the tuples in index order reports
ExpectedOrderIndependentFields ==
    LET timing(i) == tuples[i + 1].timing.val
        combo(i) == timing(i).fastest_combo
        jack(i) == timing(i).fastest_jack
        acc(i) == timing(i).fastest_acc
        mcombo(i) == analyze(tuples[i + 1]).val.longest_mcombo
        timed == Ascending(TimedSurvivors)
    IN  /\ SurvivorsKeepIndex
        /\ analysis.timing_info_dependant_score_indices = timed
        /\ analysis.current_wifescores =
              [k \in 1..Len(timed) |-> tuples[timed[k] + 1].wifescore]
        /\ analysis.new_wifescores =
              [k \in 1..Len(timed) |-> timing(timed[k]).new_wifescore]
        /\ <<analysis.fastest_combo, analysis.fastest_combo_scorekey>> =
              MaxOwner(TimedSurvivors, combo, EmptyKey)
        /\ <<analysis.fastest_jack, analysis.fastest_jack_scorekey>> =
              MaxOwner(TimedSurvivors, jack, EmptyKey)
        /\ <<analysis.fastest_acc, analysis.fastest_acc_scorekey>> =
              MaxOwner(TimedSurvivors, acc, EmptyKey)
        /\ <<locals.longest_mcombo, locals.longest_mcombo_scorekey>> =
              MaxOwner(Survivors, mcombo, NoChart)

\* how create ends once the reduction is over: by the standard deviation of the
\* combined histogram of the readable scores, or by its panic
ExpectedEnding ==
    LET buckets == [b \in 1..NUM_OFFSET_BUCKETS |->
                      SumSeq([k \in 1..Len(SurvivorSeq) |->
                                analyze(tuples[SurvivorSeq[k] + 1]).val.offset_buckets[b]])]
        sd == calculate_standard_deviation(buckets, OFFSET_BUCKET_RANGE, overflow_checks)
    IN  /\ create_pc = "panic" <=> sd.panic
        /\ create_pc = "done" => analysis.standard_deviation = sd.variance

\* C3: the report is the same whether the map step runs sequentially or on the
\* worker pool: whatever order the closures finish in, the reduction consumes the
\* (index, result) pairs in original-index order and yields the same
\* score_indices, per-score lists, sums, maxima and owner keys (and create ends
\* the same way, the overflow setting of the build being equal).
C3_MapOrderIrrelevant ==
    /\ (SameLengths /\ create_pc = "reduce")
          => \A k \in 1..Len(tuples) : score_analyses[k] = MapClosure(k - 1, tuples[k])
    /\ ReductionOver => ExpectedOrderIndependentFields
    /\ (ReductionOver /\ create_pc \in {"done", "panic"}) => ExpectedEnding

\* C3 witness: on the worker pool the second closure finished before the first,
\* both replays were readable, and the report was returned
C3_Witness ==
    /\ ~debug_build
    /\ create_pc = "done"
    /\ completed = <<2, 1>>
    /\ analysis.score_indices = <<0, 1>>
    /\ analysis.fastest_combo_scorekey = 1

\* C4: for equal-length inputs create runs to completion and returns a report, also
\* for an empty batch, a batch in which every replay fails, and a batch whose
\* combined histogram counts zero or one hit.
C4_CreateCompletes ==
    SameLengths => create_pc # "panic"

\* C5: if wifescores, packs, songs or rates differs in length from scorekeys, create
\* fails before any replay is read or analyzed, and no report is returned.
C5_LengthMismatchFatal ==
    ~SameLengths
    => /\ create_pc \in {"validate", "panic"}
       /\ files_read = 0
       /\ score_analyses = <<>>
       /\ analysis = DefaultAnalysis

\* C5 witness: only rates differs in length, and create has panicked
C5_Witness ==
    /\ create_pc = "panic"
    /\ lens.scorekeys = 2
    /\ lens.wifescores = 2
    /\ lens.packs = 2
    /\ lens.songs = 2
    /\ lens.rates = 1
    /\ files_read = 0

\* the largest of q's values over the scores in S (0, the initial value, for none)
LargestOver(S, q) ==
    IF S = {} THEN 0 ELSE q[CHOOSE i \in S : \A j \in S : q[i] >= q[j]]

\* key is the scorekey of the lowest-index score in S whose value is m
EarliestAttaining(S, q, m, key) ==
    /\ key \in S
    /\ q[key] = m
    /\ \A j \in S : q[j] = m => key <= j

\* the speeds and the combo length each timed (each readable) score brings
SpeedsOf(field) == [i \in TimedSurvivors |-> tuples[i + 1].timing.val[field]]
McomboOf == [i \in Survivors |-> analyze(tuples[i + 1]).val.longest_mcombo]

\* C14: after the batch reduction, longest_mcombo equals the maximum
\* longest_mcombo over all successful scores, and fastest_combo, fastest_jack and
\* fastest_acc each equal the maximum-speed value over all successful scores that
\* have timing data; whenever that maximum is positive, the reported scorekey is
\* the key of the lowest-index score attaining it (a later score with an equal
\* value never replaces the owner).
C14_MaximaKeepEarliestOwner ==
    ReductionOver
    => /\ locals.longest_mcombo = LargestOver(Survivors, McomboOf)
       /\ locals.longest_mcombo > 0
             => EarliestAttaining(Survivors, McomboOf, locals.longest_mcombo,
                                  locals.longest_mcombo_scorekey)
       /\ create_pc = "done"
             => analysis.longest_mcombo =
                   <<locals.longest_mcombo, locals.longest_mcombo_scorekey>>
       /\ analysis.fastest_combo = LargestOver(TimedSurvivors, SpeedsOf("fastest_combo"))
       /\ analysis.fastest_combo > 0
             => EarliestAttaining(TimedSurvivors, SpeedsOf("fastest_combo"),
                                  analysis.fastest_combo, analysis.fastest_combo_scorekey)
       /\ analysis.fastest_jack = LargestOver(TimedSurvivors, SpeedsOf("fastest_jack"))
       /\ analysis.fastest_jack > 0
             => EarliestAttaining(TimedSurvivors, SpeedsOf("fastest_jack"),
                                  analysis.fastest_jack, analysis.fastest_jack_scorekey)
       /\ analysis.fastest_acc = LargestOver(TimedSurvivors, SpeedsOf("fastest_acc"))
       /\ analysis.fastest_acc > 0
             => EarliestAttaining(TimedSurvivors, SpeedsOf("fastest_acc"),
                                  analysis.fastest_acc, analysis.fastest_acc_scorekey)

\* C14 witness: a returned report of two readable, timed scores with the same
\* marvelous combo and the same fastest_acc, both owned by the first score, and a
\* fastest_jack owned by the second
C14_Witness ==
    /\ create_pc = "done"
    /\ lens.scorekeys = 2
    /\ TimedSurvivors = {0, 1}
    /\ McomboOf[0] = 1
    /\ McomboOf[1] = 1
    /\ analysis.longest_mcombo = <<1, 0>>
    /\ SpeedsOf("fastest_acc")[0] = SpeedsOf("fastest_acc")[1]
    /\ analysis.fastest_acc_scorekey = 0
    /\ SpeedsOf("fastest_jack")[0] < SpeedsOf("fastest_jack")[1]
    /\ analysis.fastest_jack_scorekey = 1

\* C15: after the batch reduction, timing_info_dependant_score_indices,
\* current_wifescores and new_wifescores have equal length, and
\* timing_info_dependant_score_indices is exactly the order-preserving
\* subsequence of score_indices consisting of the successful scores for whose
\* (pack, song) timing data exists; a readable score without timing data still
\* appears in score_indices, manipulations and wife2_wifescores and only its
\* timing-dependent entries are absent.
C15_TimingListsAligned ==
    ReductionOver
    => LET timed == analysis.timing_info_dependant_score_indices
           kept == {k \in 1..Len(analysis.score_indices) :
                       analysis.score_indices[k] \in TimedSurvivors}
           position == Ascending(kept)
       IN  /\ Len(analysis.current_wifescores) = Len(timed)
           /\ Len(analysis.new_wifescores) = Len(timed)
           /\ Len(timed) = Len(position)
           /\ \A k \in 1..Len(timed) : timed[k] = analysis.score_indices[position[k]]
           /\ \A k \in 1..Len(timed) :
                 /\ analysis.current_wifescores[k] = tuples[timed[k] + 1].wifescore
                 /\ analysis.new_wifescores[k] =
                       tuples[timed[k] + 1].timing.val.new_wifescore
           /\ \A i \in Survivors \ TimedSurvivors :
                 \E k \in 1..Len(analysis.score_indices) :
                    /\ analysis.score_indices[k] = i
                    /\ analysis.manipulations[k] = analyze(tuples[i + 1]).val.manipulation
                    /\ analysis.wife2_wifescores[k] =
                          analyze(tuples[i + 1]).val.wife2_wifescore
                    /\ \A j \in 1..Len(timed) : timed[j] # i

\* C15 witness: a returned report of a readable score without timing data
\* followed by a readable score with timing data
C15_Witness ==
    /\ create_pc = "done"
    /\ lens.scorekeys = 2
    /\ Survivors = {0, 1}
    /\ TimedSurvivors = {1}
    /\ analysis.score_indices = <<0, 1>>
    /\ analysis.timing_info_dependant_score_indices = <<1>>
    /\ Len(analysis.new_wifescores) = 1
    /\ Len(analysis.manipulations) = 2

----------------------------------------------------------------------------
\* calculate_standard_deviation on its own: the histogram and the range are drawn,
\* one call is made

MaxHistRange == 2
MaxCount == 2

InitStddev ==
    /\ debug_build = FALSE
    /\ overflow_checks \in BOOLEAN
    /\ hist_range \in 0..MaxHistRange
    /\ \E n \in {2 * hist_range, 2 * hist_range + 1} : hist \in [1..n -> 0..MaxCount]
    /\ sd_result = None
    /\ IdleSearch
    /\ IdleParse
    /\ IdleBatch
    /\ IdleSkill
    /\ IdleTimeline
    /\ IdleAnalyze

CalculateStandardDeviation ==
    /\ sd_result = None
    /\ sd_result' = Some(calculate_standard_deviation(hist, hist_range, overflow_checks))
    /\ UNCHANGED <<hist, hist_range>>
    /\ UNCHANGED <<searchVars, buildVars, parseVars, batchVars, skillVars, timelineVars,
                   analyzeVars>>

NextStddev == CalculateStandardDeviation

SpecStddev == InitStddev /\ [][NextStddev]_vars

\* the total count N and the weighted value sum of the drawn histogram
HistCount == SumSeq(hist)
HistValueSum == SumSeq([k \in 1..Len(hist) |-> ((k - 1) - hist_range) * hist[k]])

\* sum(count * (value - S/D)^2) / D, as the exact quotient over D^3
VarianceAboutQuotient(S, D) ==
    Speed(SumSeq([k \in 1..Len(hist) |->
                    hist[k] * (((k - 1) - hist_range) * D - S)
                            * (((k - 1) - hist_range) * D - S)]),
          D * D * D)

\* C11: for every histogram of length 2*range+1 with total count N >= 2 the
\* function returns sqrt(variance), where bucket i stands for the value i - range,
\* mean is the unrounded quotient sum(value*count)/(N-1) and
\* variance = sum(count*(value-mean)^2)/(N-1).
C11_VarianceAboutUnroundedMean ==
    (/\ sd_result # None
     /\ Len(hist) = 2 * hist_range + 1
     /\ HistCount >= 2)
    => /\ ~sd_result.val.panic
       /\ SpeedEq(sd_result.val.variance,
                  VarianceAboutQuotient(HistValueSum, HistCount - 1))

\* what the code keeps of C11: the variance is taken about the quotient truncated
\* toward zero
C11_VarianceAboutTruncatedMean ==
    (/\ sd_result # None
     /\ Len(hist) = 2 * hist_range + 1
     /\ HistCount >= 2)
    => /\ ~sd_result.val.panic
       /\ SpeedEq(sd_result.val.variance,
                  VarianceAboutQuotient(
                      TruncDiv(HistValueSum, HistCount - 1) * (HistCount - 1),
                      HistCount - 1))

----------------------------------------------------------------------------
\* calc_rating::aggregate_skill.  Ratings are counted in units of the resolution
\* the search ends with (10.24 / 2^12), so every rating the search visits is an
\* integer; f32 rounding of the additions is not modelled.
\*
\* What the values v and delta_multiplier contribute is how the power sum
\*     sum_v max(0, 2/erfc(delta_multiplier*(v - rating)) - 2)
\* compares with the limit 2^(rating*0.1) at each rating.  The sum does not grow
\* and the limit does not fall as the rating grows, so the comparison is given by
\* two thresholds: the sum is above the limit below equal_from, equal to it from
\* equal_from up to below_from (both are +inf in f64 once rating*0.1 reaches 1024
\* while some v is still far above the rating), and below the limit from
\* below_from on.

NumRounds == 3          \* the 12 of `for _i in 0..12`, scaled down
MaxThreshold == 20

RECURSIVE Pow2(_)
Pow2(k) == IF k = 0 THEN 1 ELSE 2 * Pow2(k - 1)

\* resolution.unwrap_or(10.24f32), in units
InitialResolution == Pow2(NumRounds)

Orderings ==
    {o \in [equal_from : 0..MaxThreshold, below_from : 0..MaxThreshold] :
        o.equal_from <= o.below_from}

\* result_multiplier: 1.05 for a category, 1.125 for the overall rating
ResultMultipliers == {Speed(21, 20), Speed(9, 8)}

SumVsLimit(ord, r) ==
    IF r < ord.equal_from THEN "above"
    ELSE IF r < ord.below_from THEN "equal"
    ELSE "below"

\* `2f64.powf(rating as f64 * 0.1) >= sum`
LimitReached(ord, r) == SumVsLimit(ord, r) # "above"

\* rating += resolution * 2.0f32
NudgeMut(r, res) == r + res
Nudge(r, res) == r + res * 2

InitSkill ==
    /\ ordering \in Orderings
    /\ result_multiplier \in ResultMultipliers
    /\ rating = 0
    /\ resolution = InitialResolution
    /\ round = 0
    /\ skill_pc = "loop"
    /\ skill_result = ZeroSpeed
    /\ IdleSearch
    /\ IdleBuild
    /\ IdleParse
    /\ IdleBatch
    /\ IdleStddev
    /\ IdleTimeline
    /\ IdleAnalyze

\* one pass of the inner `loop`: step up, sum, test
Accumulate ==
    /\ skill_pc = "loop"
    /\ rating' = rating + resolution
    /\ skill_pc' = IF LimitReached(ordering, rating') THEN "back" ELSE "loop"
    /\ UNCHANGED <<ordering, result_multiplier, resolution, round, skill_result>>
    /\ UNCHANGED <<searchVars, buildVars, parseVars, batchVars, stddevVars, timelineVars,
                   analyzeVars>>

\* after the break: move backwards and proceed half as quickly
BackOff ==
    /\ skill_pc = "back"
    /\ rating' = rating - resolution
    /\ resolution' = resolution \div 2
    /\ round' = round + 1
    /\ skill_pc' = IF round + 1 < NumRounds THEN "loop" ELSE "nudge"
    /\ UNCHANGED <<ordering, result_multiplier, skill_result>>
    /\ UNCHANGED <<searchVars, buildVars, parseVars, batchVars, stddevVars, timelineVars,
                   analyzeVars>>

\* rating += resolution * 2.0f32; rating * result_multiplier
ReturnRating ==
    /\ skill_pc = "nudge"
    /\ rating' = Nudge(rating, resolution)
    /\ skill_result' = Speed(rating' * result_multiplier.num, result_multiplier.den)
    /\ skill_pc' = "done"
    /\ UNCHANGED <<ordering, result_multiplier, resolution, round>>
    /\ UNCHANGED <<searchVars, buildVars, parseVars, batchVars, stddevVars, timelineVars,
                   analyzeVars>>

NextSkill == Accumulate \/ BackOff \/ ReturnRating

SpecSkill == InitSkill /\ [][NextSkill]_vars

\* the grid of the last round: its resolution is 10.24 / 2^11
GridStep == InitialResolution \div Pow2(NumRounds - 1)
OnGrid(r) == r % GridStep = 0

\* the 'okay' test as the strict inequality sum < 2^(r*0.1)
StrictlyOkay(r) == SumVsLimit(ordering, r) = "below"

\* the 'okay' test as the code's break condition 2^(r*0.1) >= sum
Okay(r) == SumVsLimit(ordering, r) \in {"equal", "below"}

\* C12 as stated: with the 'okay' test taken as the strict inequality
\* sum < 2^(r*0.1), monotone in r, aggregate_skill started at rating 0 and
\* resolution 10.24 performs 12 halving rounds and returns R*resultMultiplier
\* where R satisfies the strict inequality and is the smallest positive point of
\* the grid of step 10.24/2^11 that does (R minus one grid step is not okay, or
\* is 0).
C12_SmallestStrictlyOkay_Original ==
    skill_pc = "done"
    => /\ round = NumRounds
       /\ SpeedEq(skill_result, Speed(rating * result_multiplier.num, result_multiplier.den))
       /\ rating > 0
       /\ OnGrid(rating)
       /\ StrictlyOkay(rating)
       /\ rating - GridStep = 0 \/ ~StrictlyOkay(rating - GridStep)
       /\ \A g \in 1..(rating - 1) : OnGrid(g) => ~StrictlyOkay(g)

\* C12, amended: with the 'okay' test taken as the non-strict inequality
\* sum <= 2^(r*0.1), monotone in r, aggregate_skill started at rating 0 and
\* resolution 10.24 performs 12 halving rounds and returns R*resultMultiplier
\* where R satisfies that inequality and is the smallest positive point of the
\* grid of step 10.24/2^11 that does (R minus one grid step is not okay, or is 0).
C12_SmallestOkay ==
    skill_pc = "done"
    => /\ round = NumRounds
       /\ SpeedEq(skill_result, Speed(rating * result_multiplier.num, result_multiplier.den))
       /\ rating > 0
       /\ OnGrid(rating)
       /\ Okay(rating)
       /\ rating - GridStep = 0 \/ ~Okay(rating - GridStep)
       /\ \A g \in 1..(rating - 1) : OnGrid(g) => ~Okay(g)

\* C12 witness: a search that climbed in the first and in the last round and
\* returned a rating above the first grid point
C12_Witness ==
    /\ skill_pc = "done"
    /\ ordering.equal_from = InitialResolution + 3
    /\ ordering.below_from = ordering.equal_from
    /\ rating = InitialResolution + 4
    /\ round = NumRounds

----------------------------------------------------------------------------
\* SkillTimeline::create.  ssr_vectors[c] is the value list of category c (1-based),
\* rating_vectors[c] the ratings pushed for it.

MaxDays == 4
MaxDayId == 2
NumCategories == 7

\* A call of calc_rating::aggregate_skill, by its arguments: the value returned is
\* a function of them (SpecSkill models how it is found)
aggregate_skill(v, delta, mult) ==
    [aggregate_skill |-> v, delta_multiplier |-> delta, result_multiplier |-> mult]

\* the value lists drawn: every value is told apart by category and position;
\* with short, the last category's list lacks its last value
SsrVectors(n, short) ==
    [c \in 1..NumCategories |->
        [j \in 1..(IF short /\ c = NumCategories THEN n - 1 ELSE n) |-> 10 * c + j]]

\* day_ids.count() of the group that starts after position pos: the run of
\* consecutive equal identifiers (itertools group_by)
GroupCount(ids, pos) ==
    LET ends == {j \in (pos + 1)..Len(ids) : j = Len(ids) \/ ids[j + 1] # ids[j]}
    IN  (CHOOSE j \in ends : \A h \in ends : j <= h) - pos

\* index += day_ids.count()
AdvanceIndex(idx, count) == idx + count

\* &skill_vector[..index]
SkillSliceMut(ssr_vector, idx) == ssr_vector
SkillSlice(ssr_vector, idx) == SubSeq(ssr_vector, 1, idx)

InitTimeline ==
    /\ day_ids \in SeqsUpTo(1..MaxDayId, MaxDays)
    /\ \E short \in BOOLEAN :
          /\ short => Len(day_ids) > 0
          /\ ssr_vectors = SsrVectors(Len(day_ids), short)
    /\ index = 0
    /\ rating_vectors = [c \in 1..NumCategories |-> <<>>]
    /\ overall_ratings = <<>>
    /\ timeline_pc = "sessions"
    /\ IdleSearch
    /\ IdleBuild
    /\ IdleParse
    /\ IdleBatch
    /\ IdleStddev
    /\ IdleSkill
    /\ IdleAnalyze

\* one pass of `for (_day_id, day_ids) in &day_ids.iter().group_by(..)`; slicing
\* a list shorter than index panics, as does a list past the seventh
NextSession ==
    /\ timeline_pc = "sessions"
    /\ index < Len(day_ids)
    /\ LET new_index == AdvanceIndex(index, GroupCount(day_ids, index))
       IN  /\ index' = new_index
           /\ IF \/ Len(ssr_vectors) > NumCategories
                 \/ \E c \in 1..Len(ssr_vectors) : new_index > Len(ssr_vectors[c])
              THEN /\ timeline_pc' = "panic"
                   /\ UNCHANGED rating_vectors
              ELSE /\ timeline_pc' = "sessions"
                   /\ rating_vectors' =
                         [c \in 1..NumCategories |->
                            IF c <= Len(ssr_vectors)
                            THEN Append(rating_vectors[c],
                                        aggregate_skill(SkillSlice(ssr_vectors[c], new_index),
                                                        Speed(1, 10), Speed(21, 20)))
                            ELSE rating_vectors[c]]
    /\ UNCHANGED <<day_ids, ssr_vectors, overall_ratings>>
    /\ UNCHANGED <<searchVars, buildVars, parseVars, batchVars, stddevVars, skillVars,
                   analyzeVars>>

\* izip!(&rating_vectors[0], .., &rating_vectors[6]).map(..).collect(), and return
OverallRatings ==
    /\ timeline_pc = "sessions"
    /\ index = Len(day_ids)
    /\ LET shortest == CHOOSE n \in {Len(rating_vectors[c]) : c \in 1..NumCategories} :
                          \A c \in 1..NumCategories : n <= Len(rating_vectors[c])
       IN  overall_ratings' =
              [k \in 1..shortest |->
                  aggregate_skill([c \in 1..NumCategories |-> rating_vectors[c][k]],
                                  Speed(1, 10), Speed(9, 8))]
    /\ timeline_pc' = "done"
    /\ UNCHANGED <<day_ids, ssr_vectors, index, rating_vectors>>
    /\ UNCHANGED <<searchVars, buildVars, parseVars, batchVars, stddevVars, skillVars,
                   analyzeVars>>

NextTimeline == NextSession \/ OverallRatings

SpecTimeline == InitTimeline /\ [][NextTimeline]_vars

\* 7 value lists of the same length as day_ids
SevenListsOfDayLength ==
    /\ Len(ssr_vectors) = NumCategories
    /\ \A c \in 1..NumCategories : Len(ssr_vectors[c]) = Len(day_ids)

\* the distinct session identifiers, in the order of their first appearance
SessionIds ==
    LET firsts == {j \in 1..Len(day_ids) : \A h \in 1..(j - 1) : day_ids[h] # day_ids[j]}
        at == Ascending(firsts)
    IN  [k \in 1..Len(at) |-> day_ids[at[k]]]

\* the positions of day_ids that belong to sessions 1..k
PositionsUpTo(k) ==
    {j \in 1..Len(day_ids) : \E h \in 1..k : day_ids[j] = SessionIds[h]}

\* the last position of every run of equal consecutive identifiers, ascending
RunEnds ==
    Ascending({j \in 1..Len(day_ids) : j = Len(day_ids) \/ day_ids[j + 1] # day_ids[j]})

\* the ratings are those of the sessions that end at the positions ends[1], ends[2], ..
RatingsOfPrefixes(ends) ==
    /\ \A c \in 1..NumCategories :
          /\ Len(rating_vectors[c]) = Len(ends)
          /\ \A k \in 1..Len(ends) :
                rating_vectors[c][k] =
                   aggregate_skill(SubSeq(ssr_vectors[c], 1, ends[k]),
                                   Speed(1, 10), Speed(21, 20))
    /\ Len(overall_ratings) = Len(ends)
    /\ \A k \in 1..Len(ends) :
          overall_ratings[k] =
             aggregate_skill([c \in 1..NumCategories |-> rating_vectors[c][k]],
                             Speed(1, 10), Speed(9, 8))
    /\ \A k \in 1..(Len(ends) - 1) : ends[k] < ends[k + 1]
    /\ Len(ends) > 0 => ends[Len(ends)] = Len(day_ids)

----------------------------------------------------------------------------
\* analyze, on the replay parse_replay_file returned: ticks, deviations (in
\* milliseconds, as the parser model keeps them) and columns, in hit order.  Note
\* times are milliseconds too.  The parts left to the scoring formulas (wife3,
\* Wife2, rescore) and to util are not part of the result modelled here; the call
\* that computes fastest_acc is recorded by the time sequence it is given.

MaxReplayNotes == 2
MaxTick == 1
ComboMinNotes == 1      \* the 100 of the combo searches, scaled down
ComboMaxNotes == 2      \* the 130
JackNotes == 1          \* the 30 of the jack search

ReplayDeviations == {0 - 90, 90, 1000}     \* 1000 ms is the miss sentinel 1.0
ReplayColumns == {0, 1, 4}
NoteTimes == {0, 100}

\* the chart-timing lookups: tick -> note time, order-preserving
TimingInfos ==
    {t \in [0..MaxTick -> NoteTimes] : \A a, b \in 0..MaxTick : a <= b => t[a] <= t[b]}

\* timing_info.ticks_to_seconds(&ticks)
ticks_to_seconds(timing_info, tks) == [k \in 1..Len(tks) |-> timing_info[tks[k]]]

RECURSIVE SortFrom(_, _)
\* permutation::sort(&unsorted_ticks[..]): the positions in stable tick order
SortFrom(tks, rest) ==
    IF rest = {} THEN <<>>
    ELSE LET m == CHOOSE i \in rest :
                     \A j \in rest : tks[i] < tks[j] \/ (tks[i] = tks[j] /\ i <= j)
         IN  <<m>> \o SortFrom(tks, rest \ {m})

\* permutation.apply_slice(..)
apply_slice(perm, q) == [k \in 1..Len(perm) |-> q[perm[k]]]

\* d.abs() > 0.09
IsCb(d) == Abs(d) > 90

\* the per-column tallies, on the unsorted replay
Tally(cols, hit) ==
    [c \in 1..4 |-> Cardinality({k \in 1..Len(cols) : cols[k] = c - 1 /\ hit[k]})]

\* `hit_column == column && deviation <= 0.180`
InJackColumn(hit_column, column, deviation) == hit_column = column /\ deviation <= 180

RECURSIVE ColumnSeconds(_, _, _, _, _)
\* column_seconds of one column: second + deviation of its notes, in note order
ColumnSeconds(note_seconds, devs, cols, column, k) ==
    IF k > Len(note_seconds) THEN <<>>
    ELSE (IF InJackColumn(cols[k], column, devs[k])
          THEN <<note_seconds[k] + devs[k]>> ELSE <<>>)
         \o ColumnSeconds(note_seconds, devs, cols, column, k + 1)

RECURSIVE JackLoop(_, _, _, _, _, _)
\* for column in 0..4: the running fastest_jack_so_far
JackLoop(note_seconds, devs, cols, r, column, so_far) ==
    IF column >= 4 THEN so_far
    ELSE LET found == find_fastest_note_subset(
                          ColumnSeconds(note_seconds, devs, cols, column, 1),
                          JackNotes, JackNotes)
             fastest_jack == [found EXCEPT !.speed = Speed(found.speed.num * r,
                                                           found.speed.den)]
         IN  JackLoop(note_seconds, devs, cols, r, column + 1,
                      IF Gt(fastest_jack.speed, so_far.speed) THEN fastest_jack
                      ELSE so_far)

\* the time sequences handed to the searches: fastest_combo, fastest_acc, then
\* the four columns of the jack search
SearchedSequences(note_seconds, devs, cols) ==
    <<note_seconds, note_seconds>>
    \o [c \in 1..4 |-> ColumnSeconds(note_seconds, devs, cols, c - 1, 1)]

\* the ScoreAnalysis of a readable replay
ScoreOf(tks, devs, cols, timing_info_maybe, r) ==
    LET permutation == SortFrom(tks, 1..Len(tks))
        sorted_ticks == apply_slice(permutation, tks)
        sorted_deviations == apply_slice(permutation, devs)
        sorted_columns == apply_slice(permutation, cols)
        cbs == [k \in 1..Len(tks) |-> IsCb(sorted_deviations[k])]
        num_manipped_notes ==
            Cardinality({k \in 1..(Len(tks) - 1) : tks[k] > tks[k + 1]})
        note_seconds == ticks_to_seconds(timing_info_maybe.val, sorted_ticks)
    IN  [notes_per_column |-> Tally(cols, [k \in 1..Len(cols) |-> TRUE]),
         cbs_per_column |-> Tally(cols, [k \in 1..Len(cols) |-> IsCb(devs[k])]),
         manipulation |-> Speed(num_manipped_notes, Len(tks)),
         are_cbs |-> cbs,
         timing_info_dependant_analysis |->
            IF timing_info_maybe = None THEN None
            ELSE Some([fastest_combo |->
                          find_fastest_combo_in_score(note_seconds, cbs, ComboMinNotes,
                                                      ComboMaxNotes, <<>>, FALSE, r),
                       fastest_jack |->
                          JackLoop(note_seconds, sorted_deviations, sorted_columns, r,
                                   0, DefaultInfo)])]

InitAnalyze ==
    /\ \/ /\ parse_pc = "done"
          /\ \E n \in 0..MaxReplayNotes :
                /\ ticks \in [1..n -> 0..MaxTick]
                /\ deviations \in [1..n -> ReplayDeviations]
                /\ columns \in [1..n -> ReplayColumns]
       \/ /\ parse_pc = "unreadable"
          /\ ticks = <<>>
          /\ deviations = <<>>
          /\ columns = <<>>
    /\ line = <<>>
    /\ lines_done = 0
    /\ num_mine_hits = 0
    /\ num_hold_drops = 0
    /\ analyze_pc = "parsed"
    /\ searched = <<>>
    /\ analyzed = Pending
    /\ IdleSearch
    /\ IdleBuild
    /\ IdleBatch
    /\ IdleCalc

\* let replay_file_data = parse_replay_file(path)?;
AnalyzeUnreadable ==
    /\ analyze_pc = "parsed"
    /\ parse_pc = "unreadable"
    /\ analyzed' = None
    /\ analyze_pc' = "done"
    /\ UNCHANGED searched
    /\ UNCHANGED <<searchVars, buildVars, parseVars, batchVars, calcVars>>

\* the rest of analyze, without and with the chart's timing info
Analyze ==
    /\ analyze_pc = "parsed"
    /\ parse_pc = "done"
    /\ \E timing_info_maybe \in {None} \cup {Some(t) : t \in TimingInfos} :
          LET permutation == SortFrom(ticks, 1..Len(ticks))
              note_seconds == ticks_to_seconds(timing_info_maybe.val,
                                               apply_slice(permutation, ticks))
          IN  /\ analyzed' = Some(ScoreOf(ticks, deviations, columns, timing_info_maybe,
                                          rate))
              /\ searched' =
                    IF timing_info_maybe = None THEN <<>>
                    ELSE SearchedSequences(note_seconds,
                                           apply_slice(permutation, deviations),
                                           apply_slice(permutation, columns))
    /\ analyze_pc' = "done"
    /\ UNCHANGED <<searchVars, buildVars, parseVars, batchVars, calcVars>>

NextAnalyze == AnalyzeUnreadable \/ Analyze

SpecAnalyze == InitAnalyze /\ [][NextAnalyze]_vars

\* C17: every time sequence that analyze passes to the fastest-window search is
\* non-decreasing, as the search requires: the note times used for fastest_combo
\* and fastest_acc, and each per-column jack sequence of (note time + deviation)
\* values restricted to deviation <= 0.18, for every replay whose notes are
\* sorted by tick.
C17_SearchedSequencesSorted ==
    (/\ analyze_pc = "done"
     /\ StrictlyIncreasing(ticks)
     /\ Len(searched) > 0 => StrictlyIncreasing(searched[1]))
    => \A k \in 1..Len(searched) : IsSorted(searched[k])

\* what the code keeps of C17: the note times of both combo searches are sorted
C17_NoteTimesSorted ==
    analyze_pc = "done"
    => \A k \in 1..Len(searched) : k <= 2 => IsSorted(searched[k])

====
